---- MODULE Spec2Model ----
(***************************************************************************)
(* A model of src/src/lib.rs: the JSON-RPC message dispatcher              *)
(* Server::handle_message with its two handlers, the serde-derived         *)
(* (de)serializers of the protocol types it relies on, and a caller that   *)
(* feeds one Server a sequence of message texts.                           *)
(*                                                                         *)
(* A message text is modelled by its syntax: either text that is not JSON  *)
(* (Unparseable) or a JSON document tree in which an object is the ordered *)
(* list of its members as written (so a name may repeat) and a number      *)
(* keeps the representation serde_json gives it (PosInt, NegInt, Float,    *)
(* and a PosInt above i64::MAX, which TLC's integers cannot hold).         *)
(* A parsed serde_json::Value is a different structure: its objects are    *)
(* maps from names to Values.                                              *)
(***************************************************************************)
EXTENDS Integers, Sequences, FiniteSets, TLC

(* ------------------------------------------------------------------ *)
(* Bounds of the explored inputs                                       *)
(* ------------------------------------------------------------------ *)

\* integer identifiers range over -MaxIdNumber .. MaxIdNumber
MaxIdNumber == 1
\* top-level JSON arrays have at most this many elements
MaxArrayLen == 3

(* ------------------------------------------------------------------ *)
(* Rust's Result and Option                                            *)
(* ------------------------------------------------------------------ *)

Ok(x) == [ok |-> TRUE, val |-> x]
Err == [ok |-> FALSE]
Some(x) == [some |-> TRUE, val |-> x]
None == [some |-> FALSE]

(* ------------------------------------------------------------------ *)
(* JSON text                                                           *)
(* ------------------------------------------------------------------ *)

Unparseable == [t |-> "unparseable"]
JNull == [t |-> "null"]
JBool(b) == [t |-> "bool", b |-> b]
JStr(s) == [t |-> "str", s |-> s]
JInt(n) == [t |-> "num", rep |-> IF n >= 0 THEN "PosInt" ELSE "NegInt", n |-> n]
\* an integer literal in i64::MAX+1 .. u64::MAX
JBigUInt == [t |-> "num", rep |-> "PosIntAboveI64Max", n |-> 0]
\* the literal n.5
JFloat(n) == [t |-> "num", rep |-> "Float", n |-> n]
JArr(items) == [t |-> "arr", items |-> items]
JObj(members) == [t |-> "obj", members |-> members]
Member(k, v) == [k |-> k, v |-> v]

\* the values written for name k in a member list, in the order written
Occurrences(members, k) == SelectSeq(members, LAMBDA m : m.k = k)
MemberNames(members) == {members[i].k : i \in 1..Len(members)}
\* the last value written for name k
LastOccurrence(members, k) ==
    LET occ == Occurrences(members, k) IN occ[Len(occ)].v

(* ------------------------------------------------------------------ *)
(* serde_json::Value                                                   *)
(* ------------------------------------------------------------------ *)

VObject(map) == [t |-> "object", map |-> map]
VArray(items) == [t |-> "array", items |-> items]
EmptyMap == [k \in {} |-> JNull]

\* every object name of the model, in the order serde_json's Map (a BTreeMap)
\* iterates them
KeyOrder ==
    << "capabilities", "clientInfo", "code", "data", "error", "extra", "id",
       "jsonrpc", "list_changed", "logging", "message", "method", "name",
       "params", "prompts", "protocolVersion", "resources", "result",
       "serverInfo", "subscribe", "tools", "version" >>

\* the generic parse of a document: an object keeps, for a repeated name, the
\* last value written
RECURSIVE Value_from_doc(_)
Value_from_doc(d) ==
    CASE d.t = "obj" ->
           VObject([k \in MemberNames(d.members) |->
                       Value_from_doc(LastOccurrence(d.members, k))])
      [] d.t = "arr" ->
           VArray([i \in 1..Len(d.items) |-> Value_from_doc(d.items[i])])
      [] OTHER -> d

\* serde_json::from_str::<Value>
Value_from_str(text) ==
    IF text.t = "unparseable" THEN Err ELSE Ok(Value_from_doc(text))

\* Value::get with a string index: None unless the value is an object that
\* has the name
Value_get(v, key) ==
    IF v.t = "object" /\ key \in DOMAIN v.map THEN Some(v.map[key]) ELSE None

\* the text of a Value: an object's members come out in the Map's order
RECURSIVE Value_to_doc(_)
Value_to_doc(v) ==
    CASE v.t = "object" ->
           LET names == SelectSeq(KeyOrder, LAMBDA k : k \in DOMAIN v.map)
           IN  JObj([i \in 1..Len(names) |->
                        Member(names[i], Value_to_doc(v.map[names[i]]))])
      [] v.t = "array" ->
           JArr([i \in 1..Len(v.items) |-> Value_to_doc(v.items[i])])
      [] OTHER -> v

(* ------------------------------------------------------------------ *)
(* Protocol types and their derived (de)serializers                    *)
(* ------------------------------------------------------------------ *)

JSONRPC_VERSION == "2.0"
PROTOCOL_VERSION == "2024-11-05"

String_deserialize(d) == IF d.t = "str" THEN Ok(d.s) ELSE Err

\* i64 and i32: an integer literal in range; a float is refused
i64_deserialize(d) ==
    IF d.t = "num" /\ d.rep \in {"PosInt", "NegInt"} THEN Ok(d.n) ELSE Err

\* Option<Value>: null is None
OptionValue_deserialize(d) ==
    IF d.t = "null" THEN Ok(None) ELSE Ok(Some(Value_from_doc(d)))

\* RequestId read with the numeric variant preferred: a string of digits
\* becomes a Number
RequestId_deserialize_digits_as_number(d) ==
    IF d.t = "str" /\ d.s = "1" THEN Ok([Number |-> 1])
    ELSE IF String_deserialize(d).ok
         THEN Ok([String |-> String_deserialize(d).val])
    ELSE IF i64_deserialize(d).ok THEN Ok([Number |-> i64_deserialize(d).val])
    ELSE Err

\* RequestId, untagged: the variants are tried in the order declared
RequestId_deserialize(d) ==
    IF String_deserialize(d).ok THEN Ok([String |-> String_deserialize(d).val])
    ELSE IF i64_deserialize(d).ok THEN Ok([Number |-> i64_deserialize(d).val])
    ELSE Err

RequestId_serialize(id) ==
    IF "String" \in DOMAIN id THEN JStr(id.String) ELSE JInt(id.Number)

\* One named field of a derived struct looked up in an object's members: a
\* name written twice is the error "duplicate field"; members the struct does
\* not name are skipped.
FieldOf(members, k) ==
    LET occ == Occurrences(members, k)
    IN  IF Len(occ) > 1 THEN [state |-> "duplicate"]
        ELSE IF Len(occ) = 0 THEN [state |-> "missing"]
        ELSE [state |-> "found", doc |-> occ[1].v]

\* a field that is not an Option: a name not written is the error "missing
\* field"
String_field(f) ==
    IF f.state = "found" THEN String_deserialize(f.doc) ELSE Err

i64_field(f) ==
    IF f.state = "found" THEN i64_deserialize(f.doc) ELSE Err

RequestId_field(f) ==
    IF f.state = "found" THEN RequestId_deserialize(f.doc) ELSE Err

\* an Option field: a name not written is None
OptionValue_field(f) ==
    IF f.state = "found" THEN OptionValue_deserialize(f.doc)
    ELSE IF f.state = "missing" THEN Ok(None)
    ELSE Err

\* #[derive(Deserialize)] struct Request
Request_build(jsonrpc, id, method, params) ==
    IF jsonrpc.ok /\ id.ok /\ method.ok /\ params.ok
    THEN Ok([jsonrpc |-> jsonrpc.val, id |-> id.val,
             method |-> method.val, params |-> params.val])
    ELSE Err

\* serde_json::from_str::<Request>: a struct is read from an object by name
\* or from an array by position, one element per field
Request_from_str(text) ==
    CASE text.t = "obj" ->
           Request_build(
               String_field(FieldOf(text.members, "jsonrpc")),
               RequestId_field(FieldOf(text.members, "id")),
               String_field(FieldOf(text.members, "method")),
               OptionValue_field(FieldOf(text.members, "params")))
      [] text.t = "arr" ->
           IF Len(text.items) # 4 THEN Err
           ELSE Request_build(
                    String_deserialize(text.items[1]),
                    RequestId_deserialize(text.items[2]),
                    String_deserialize(text.items[3]),
                    OptionValue_deserialize(text.items[4]))
      [] OTHER -> Err

\* #[derive(Deserialize)] struct Notification
Notification_build(jsonrpc, method, params) ==
    IF jsonrpc.ok /\ method.ok /\ params.ok
    THEN Ok([jsonrpc |-> jsonrpc.val, method |-> method.val,
             params |-> params.val])
    ELSE Err

\* serde_json::from_str::<Notification>
Notification_from_str(text) ==
    CASE text.t = "obj" ->
           Notification_build(
               String_field(FieldOf(text.members, "jsonrpc")),
               String_field(FieldOf(text.members, "method")),
               OptionValue_field(FieldOf(text.members, "params")))
      [] text.t = "arr" ->
           IF Len(text.items) # 3 THEN Err
           ELSE Notification_build(
                    String_deserialize(text.items[1]),
                    String_deserialize(text.items[2]),
                    OptionValue_deserialize(text.items[3]))
      [] OTHER -> Err

\* #[derive(Deserialize)] struct ErrorResponse
ErrorResponse_build(code, message, data) ==
    IF code.ok /\ message.ok /\ data.ok
    THEN Ok([code |-> code.val, message |-> message.val, data |-> data.val])
    ELSE Err

ErrorResponse_deserialize(d) ==
    CASE d.t = "obj" ->
           ErrorResponse_build(
               i64_field(FieldOf(d.members, "code")),
               String_field(FieldOf(d.members, "message")),
               OptionValue_field(FieldOf(d.members, "data")))
      [] d.t = "arr" ->
           IF Len(d.items) # 3 THEN Err
           ELSE ErrorResponse_build(
                    i64_deserialize(d.items[1]),
                    String_deserialize(d.items[2]),
                    OptionValue_deserialize(d.items[3]))
      [] OTHER -> Err

\* Option<ErrorResponse>
OptionErrorResponse_deserialize(d) ==
    IF d.t = "null" THEN Ok(None)
    ELSE IF ErrorResponse_deserialize(d).ok
         THEN Ok(Some(ErrorResponse_deserialize(d).val))
         ELSE Err

OptionErrorResponse_field(f) ==
    IF f.state = "found" THEN OptionErrorResponse_deserialize(f.doc)
    ELSE IF f.state = "missing" THEN Ok(None)
    ELSE Err

\* #[derive(Serialize)] struct ErrorResponse: `data` is skipped when None
ErrorResponse_serialize(e) ==
    JObj(<< Member("code", JInt(e.code)), Member("message", JStr(e.message)) >>
         \o (IF e.data.some
             THEN << Member("data", Value_to_doc(e.data.val)) >>
             ELSE << >>))

\* #[derive(Deserialize)] struct Response
Response_build(jsonrpc, id, result, error) ==
    IF jsonrpc.ok /\ id.ok /\ result.ok /\ error.ok
    THEN Ok([jsonrpc |-> jsonrpc.val, id |-> id.val,
             result |-> result.val, error |-> error.val])
    ELSE Err

\* serde_json::from_str::<Response>, of a reply text that is an object
Response_from_str(text) ==
    CASE text.t = "obj" ->
           Response_build(
               String_field(FieldOf(text.members, "jsonrpc")),
               RequestId_field(FieldOf(text.members, "id")),
               OptionValue_field(FieldOf(text.members, "result")),
               OptionErrorResponse_field(FieldOf(text.members, "error")))
      [] OTHER -> Err

\* Response written without skip_serializing_if: a None goes out as null
Response_to_string_with_nulls(r) ==
    JObj(<< Member("jsonrpc", JStr(r.jsonrpc)),
            Member("id", RequestId_serialize(r.id)),
            Member("result", IF r.result.some
                             THEN Value_to_doc(r.result.val) ELSE JNull),
            Member("error", IF r.error.some
                            THEN ErrorResponse_serialize(r.error.val)
                            ELSE JNull) >>)

\* serde_json::to_string(&Response): `result` and `error` are skipped when
\* None
Response_to_string(r) ==
    JObj(<< Member("jsonrpc", JStr(r.jsonrpc)),
            Member("id", RequestId_serialize(r.id)) >>
         \o (IF r.result.some
             THEN << Member("result", Value_to_doc(r.result.val)) >>
             ELSE << >>)
         \o (IF r.error.some
             THEN << Member("error", ErrorResponse_serialize(r.error.val)) >>
             ELSE << >>))

\* #[derive(Serialize)] on the capability structs, as the json! macro turns
\* them into a Value: every field goes out under the name it is declared with
PromptsCapability_to_value(p) ==
    VObject("list_changed" :> JBool(p.list_changed))

ResourcesCapability_to_value(r) ==
    VObject(("subscribe" :> JBool(r.subscribe))
            @@ ("list_changed" :> JBool(r.list_changed)))

ToolsCapability_to_value(c) ==
    VObject("list_changed" :> JBool(c.list_changed))

\* struct ServerCapabilities: a group that is None is skipped
ServerCapabilities_to_value(c) ==
    LET present == {k \in {"logging", "prompts", "resources", "tools"} :
                       c[k].some}
    IN  VObject([k \in present |->
                    CASE k = "logging" -> c.logging.val
                      [] k = "prompts" ->
                           PromptsCapability_to_value(c.prompts.val)
                      [] k = "resources" ->
                           ResourcesCapability_to_value(c.resources.val)
                      [] k = "tools" ->
                           ToolsCapability_to_value(c.tools.val)])

Implementation_to_value(i) ==
    VObject(("name" :> JStr(i.name)) @@ ("version" :> JStr(i.version)))

(* ------------------------------------------------------------------ *)
(* Server                                                              *)
(* ------------------------------------------------------------------ *)

\* Server::new advertising no logging group
Server_new_without_logging(name, version) ==
    [capabilities |->
        [logging |-> None,
         prompts |-> Some([list_changed |-> FALSE]),
         resources |-> Some([subscribe |-> FALSE, list_changed |-> FALSE]),
         tools |-> Some([list_changed |-> FALSE])],
     implementation |-> [name |-> name, version |-> version]]

Server_new(name, version) ==
    [capabilities |->
        [logging |-> Some(VObject(EmptyMap)),
         prompts |-> Some([list_changed |-> FALSE]),
         resources |-> Some([subscribe |-> FALSE, list_changed |-> FALSE]),
         tools |-> Some([list_changed |-> FALSE])],
     implementation |-> [name |-> name, version |-> version]]

\* the code of JSON-RPC's "Invalid Request" in the place of "Method not found"
METHOD_NOT_FOUND_as_invalid_request == 0 - 32600

METHOD_NOT_FOUND == -32601

\* Server::handle_request
handle_request(self, message) ==
    LET request == Request_from_str(message)
    IN  IF ~request.ok THEN Err
        ELSE CASE request.val.method = "initialize" ->
                    Ok(Some(Response_to_string(
                        [jsonrpc |-> JSONRPC_VERSION,
                         id |-> request.val.id,
                         result |-> Some(VObject(
                            ("protocolVersion" :> JStr(PROTOCOL_VERSION))
                            @@ ("capabilities" :>
                                  ServerCapabilities_to_value(self.capabilities))
                            @@ ("serverInfo" :>
                                  Implementation_to_value(self.implementation)))),
                         error |-> None])))
               [] request.val.method = "ping" ->
                    Ok(Some(Response_to_string(
                        [jsonrpc |-> JSONRPC_VERSION,
                         id |-> request.val.id,
                         result |-> Some(VObject(EmptyMap)),
                         error |-> None])))
               [] OTHER ->
                    Ok(Some(Response_to_string(
                        [jsonrpc |-> JSONRPC_VERSION,
                         id |-> request.val.id,
                         result |-> None,
                         error |-> Some([code |-> METHOD_NOT_FOUND,
                                         message |-> "Method not found",
                                         data |-> None])])))

\* handle_notification refusing the methods it does not know
handle_notification_rejecting_unknown(self, message) ==
    LET notification == Notification_from_str(message)
    IN  IF ~notification.ok THEN Err
        ELSE CASE notification.val.method = "notifications/initialized" ->
                    Ok("unit")
               [] OTHER -> Err

\* Server::handle_notification: both arms of the match succeed
handle_notification(self, message) ==
    LET notification == Notification_from_str(message)
    IN  IF ~notification.ok THEN Err
        ELSE CASE notification.val.method = "notifications/initialized" ->
                    Ok("unit")
               [] OTHER -> Ok("unit")

\* handle_message classifying by the value of `id`: a null `id` counts as no
\* `id`
handle_message_null_id_as_absent(self, message) ==
    LET parsed == Value_from_str(message)
    IN  IF ~parsed.ok THEN [route |-> "none", out |-> Err]
        ELSE IF Value_get(parsed.val, "id").some
                /\ Value_get(parsed.val, "id").val # JNull
        THEN [route |-> "handle_request",
              out |-> handle_request(self, message)]
        ELSE [route |-> "handle_notification",
              out |-> IF handle_notification(self, message).ok
                      THEN Ok(None) ELSE Err]

\* Server::handle_message, returning with the outcome the handler it called
handle_message(self, message) ==
    LET parsed == Value_from_str(message)
    IN  IF ~parsed.ok THEN [route |-> "none", out |-> Err]
        ELSE IF Value_get(parsed.val, "id").some
        THEN [route |-> "handle_request",
              out |-> handle_request(self, message)]
        ELSE [route |-> "handle_notification",
              out |-> IF handle_notification(self, message).ok
                      THEN Ok(None) ELSE Err]

(* ------------------------------------------------------------------ *)
(* The message texts a caller may send                                 *)
(* ------------------------------------------------------------------ *)

IdNumbers == (0 - MaxIdNumber)..MaxIdNumber

JsonrpcDocs == {JStr("2.0"), JInt(2)}

IdDocs ==
    {JInt(n) : n \in IdNumbers}
    \cup {JStr("abc"), JStr("1"), JNull, JFloat(1), JBigUInt}

MethodDocs ==
    {JStr("initialize"), JStr("ping"), JStr("notifications/initialized"),
     JStr("tools/list"), JInt(1)}

ParamsDocs ==
    {JObj(<< >>),
     JObj(<< Member("protocolVersion", JStr("1999-01-01")),
             Member("capabilities", JObj(<< >>)),
             Member("clientInfo",
                    JObj(<< Member("name", JStr("test-client")),
                            Member("version", JStr("1.0.0")) >>)) >>)}

\* zero or one member of name k
OptionalMember(k, docs) == {<< >>} \cup {<< Member(k, d) >> : d \in docs}

\* what may follow the members above: nothing, a member no struct names, or
\* a name written once more
TrailingMembers ==
    {<< >>, << Member("extra", JBool(TRUE)) >>, << Member("id", JInt(0)) >>,
     << Member("method", JStr("ping")) >>}

ObjectTexts ==
    {JObj(j \o i \o m \o p \o r) :
        j \in OptionalMember("jsonrpc", JsonrpcDocs),
        i \in OptionalMember("id", IdDocs),
        m \in OptionalMember("method", MethodDocs),
        p \in OptionalMember("params", ParamsDocs),
        r \in TrailingMembers}

ArrayItemDocs == {JStr("2.0"), JStr("ping"), JNull, JInt(1)}

RECURSIVE SeqsUpTo(_, _)
SeqsUpTo(S, n) ==
    IF n = 0 THEN {<< >>}
    ELSE LET shorter == SeqsUpTo(S, n - 1)
         IN  shorter \cup {Append(q, e) : q \in shorter, e \in S}

ArrayTexts == {JArr(q) : q \in SeqsUpTo(ArrayItemDocs, MaxArrayLen)}

ScalarTexts == {JNull, JBool(TRUE), JInt(1), JStr("ping")}

MessageTexts == {Unparseable} \cup ScalarTexts \cup ArrayTexts \cup ObjectTexts

\* the arguments Server::new is called with
ServerArgs ==
    {[name |-> "test-server", version |-> "1.0.0"],
     [name |-> "mcp_rs", version |-> "0.2.0"]}

(* ------------------------------------------------------------------ *)
(* One Server and a caller that sends it messages one after another    *)
(* ------------------------------------------------------------------ *)

VARIABLES
    args,       \* the name and version Server::new was called with
    server,     \* the Server
    pc,         \* the caller: "idle", "calling" or "returned"
    message,    \* the text of the call in progress
    route,      \* the handler the last handle_message call used
    outcome,    \* what the last handle_message call returned
    history     \* what the calls returned so far were

vars == << args, server, pc, message, route, outcome, history >>

NoMessage == [t |-> "nothing"]
NoOutcome == [ok |-> FALSE, pending |-> TRUE]

\* what a finished call adds to the history: that a call failed, that an
\* initialize request was answered, that the initialized notification came
HistoryEntry(text, res) ==
    IF ~res.out.ok THEN {"failed"}
    ELSE IF res.route = "handle_request"
         THEN {"initialize"} \cap {Request_from_str(text).val.method}
         ELSE {"notifications/initialized"}
                  \cap {Notification_from_str(text).val.method}

Init ==
    /\ args \in ServerArgs
    /\ server = Server_new(args.name, args.version)
    /\ pc = "idle"
    /\ message = NoMessage
    /\ route = "none"
    /\ outcome = NoOutcome
    /\ history = {}

\* the caller passes a text to handle_message
Call(text) ==
    /\ pc = "idle"
    /\ pc' = "calling"
    /\ message' = text
    /\ outcome' = NoOutcome
    /\ route' = "none"
    /\ UNCHANGED << args, server, history >>

\* handle_message made to enforce the handshake: until an initialize request
\* has been answered, any other request is refused with an error Response
HandleMessage_enforcing_handshake ==
    /\ pc = "calling"
    /\ LET res == handle_message(server, message)
           refused ==
               /\ res.route = "handle_request"
               /\ res.out.ok
               /\ "initialize" \notin history
               /\ Request_from_str(message).val.method # "initialize"
       IN  /\ outcome' =
                 IF refused
                 THEN Ok(Some(Response_to_string(
                         [jsonrpc |-> JSONRPC_VERSION,
                          id |-> Request_from_str(message).val.id,
                          result |-> None,
                          error |-> Some([code |-> 0 - 32002,
                                          message |-> "Server not initialized",
                                          data |-> None])])))
                 ELSE res.out
           /\ route' = res.route
           /\ history' = history \cup HistoryEntry(message, res)
    /\ server' = server
    /\ pc' = "returned"
    /\ UNCHANGED << args, message >>

\* handle_message(&self, message) runs: it takes the Server by shared
\* reference and no field of Server has interior mutability
HandleMessage ==
    /\ pc = "calling"
    /\ LET res == handle_message(server, message)
       IN  /\ outcome' = res.out
           /\ route' = res.route
           /\ history' = history \cup HistoryEntry(message, res)
    /\ server' = server
    /\ pc' = "returned"
    /\ UNCHANGED << args, message >>

\* the caller takes the outcome and is ready for the next message
Return ==
    /\ pc = "returned"
    /\ pc' = "idle"
    /\ message' = NoMessage
    /\ outcome' = NoOutcome
    /\ route' = "none"
    /\ UNCHANGED << args, server, history >>

Next ==
    \/ \E text \in MessageTexts : Call(text)
    \/ HandleMessage
    \/ Return

Spec == Init /\ [][Next]_vars

(* ------------------------------------------------------------------ *)
(* One Server shared by several callers whose calls interleave         *)
(* ------------------------------------------------------------------ *)

\* the number of callers (threads or tasks) sharing the Server
NumCallers == 2

Callers == 1..NumCallers

\* one text of every kind of outcome
SharedTexts ==
    {Unparseable,
     JArr(<< JStr("2.0"), JStr("ping") >>),
     JObj(<< Member("jsonrpc", JStr("2.0")), Member("id", JNull),
             Member("method", JStr("ping")) >>),
     JObj(<< Member("jsonrpc", JStr("2.0")), Member("id", JInt(1)),
             Member("method", JStr("initialize")),
             Member("params", JObj(<< >>)) >>),
     JObj(<< Member("jsonrpc", JStr("2.0")), Member("id", JStr("abc")),
             Member("method", JStr("ping")) >>),
     JObj(<< Member("jsonrpc", JStr("2.0")), Member("id", JInt(0)),
             Member("method", JStr("tools/list")) >>),
     JObj(<< Member("jsonrpc", JStr("2.0")),
             Member("method", JStr("notifications/initialized")) >>)}

\* pc, message, route and outcome hold one value per caller
InitShared ==
    /\ args \in ServerArgs
    /\ server = Server_new(args.name, args.version)
    /\ pc = [c \in Callers |-> "idle"]
    /\ message = [c \in Callers |-> NoMessage]
    /\ route = [c \in Callers |-> "none"]
    /\ outcome = [c \in Callers |-> NoOutcome]
    /\ history = {}

CallShared(c, text) ==
    /\ pc[c] = "idle"
    /\ pc' = [pc EXCEPT ![c] = "calling"]
    /\ message' = [message EXCEPT ![c] = text]
    /\ outcome' = [outcome EXCEPT ![c] = NoOutcome]
    /\ route' = [route EXCEPT ![c] = "none"]
    /\ UNCHANGED << args, server, history >>

\* a handler that keeps state in the Server: a failed call withdraws the
\* tools capability
HandleMessageShared_poisoned_by_failure(c) ==
    /\ pc[c] = "calling"
    /\ LET res == handle_message(server, message[c])
       IN  /\ outcome' = [outcome EXCEPT ![c] = res.out]
           /\ route' = [route EXCEPT ![c] = res.route]
           /\ history' = history \cup HistoryEntry(message[c], res)
           /\ server' = IF res.out.ok THEN server
                        ELSE [server EXCEPT !.capabilities.tools = None]
    /\ pc' = [pc EXCEPT ![c] = "returned"]
    /\ UNCHANGED << args, message >>

\* handle_message(&self, message) run by caller c: it only reads the Server,
\* so it is one step whatever the other callers do
HandleMessageShared(c) ==
    /\ pc[c] = "calling"
    /\ LET res == handle_message(server, message[c])
       IN  /\ outcome' = [outcome EXCEPT ![c] = res.out]
           /\ route' = [route EXCEPT ![c] = res.route]
           /\ history' = history \cup HistoryEntry(message[c], res)
    /\ server' = server
    /\ pc' = [pc EXCEPT ![c] = "returned"]
    /\ UNCHANGED << args, message >>

ReturnShared(c) ==
    /\ pc[c] = "returned"
    /\ pc' = [pc EXCEPT ![c] = "idle"]
    /\ message' = [message EXCEPT ![c] = NoMessage]
    /\ outcome' = [outcome EXCEPT ![c] = NoOutcome]
    /\ route' = [route EXCEPT ![c] = "none"]
    /\ UNCHANGED << args, server, history >>

NextShared ==
    \E c \in Callers :
        \/ \E text \in SharedTexts : CallShared(c, text)
        \/ HandleMessageShared(c)
        \/ ReturnShared(c)

SpecShared == InitShared /\ [][NextShared]_vars

(* ------------------------------------------------------------------ *)
(* Vocabulary of the properties, read off the message text             *)
(* ------------------------------------------------------------------ *)

Returned == pc = "returned"
Parses(text) == text.t # "unparseable"
HasMember(text, k) == text.t = "obj" /\ Len(Occurrences(text.members, k)) > 0
HasOne(text, k) == text.t = "obj" /\ Len(Occurrences(text.members, k)) = 1
\* the value of the one member of name k
The(text, k) == Occurrences(text.members, k)[1].v
IsStringDoc(d) == d.t = "str"
\* an integer literal that fits a signed 64-bit integer
IsIntegerDoc(d) == d.t = "num" /\ d.rep \in {"PosInt", "NegInt"}

\* {"jsonrpc":<string>,"id":<string|integer>,"method":<string>,"params":...}
\* with no name written twice
ValidRequest(text) ==
    /\ HasOne(text, "jsonrpc") /\ IsStringDoc(The(text, "jsonrpc"))
    /\ HasOne(text, "id")
    /\ (IsStringDoc(The(text, "id")) \/ IsIntegerDoc(The(text, "id")))
    /\ HasOne(text, "method") /\ IsStringDoc(The(text, "method"))
    /\ Len(Occurrences(text.members, "params")) <= 1

\* {"jsonrpc":<string>,"method":<string>,"params":...} with no `id` and no
\* name written twice
ValidNotification(text) ==
    /\ HasOne(text, "jsonrpc") /\ IsStringDoc(The(text, "jsonrpc"))
    /\ ~HasMember(text, "id")
    /\ HasOne(text, "method") /\ IsStringDoc(The(text, "method"))
    /\ Len(Occurrences(text.members, "params")) <= 1

ValidRequestFor(text, method) ==
    ValidRequest(text) /\ The(text, "method") = JStr(method)

\* the call returned Ok(Some(reply))
Replied == Returned /\ outcome.ok /\ outcome.val.some
Reply == outcome.val.val
ReturnedOkNone == Returned /\ outcome.ok /\ ~outcome.val.some
Failed == Returned /\ ~outcome.ok

(* ------------------------------------------------------------------ *)
(* C1                                                                  *)
(* ------------------------------------------------------------------ *)

\* C1: a text that parses as JSON is routed to handle_request if and only if
\* its top-level document has an `id` member, whatever that member's value,
\* and to handle_notification otherwise; a message with an `id` member never
\* yields Ok(None).
C1_ClassifiedByIdPresence ==
    (Returned /\ Parses(message)) =>
        /\ route = "handle_request" <=> HasMember(message, "id")
        /\ route = "handle_notification" <=> ~HasMember(message, "id")
        /\ HasMember(message, "id") => ~ReturnedOkNone

\* a message whose `id` is null, otherwise a well-formed notification, went to
\* handle_request
C1_Witness ==
    /\ Returned
    /\ HasOne(message, "id") /\ The(message, "id") = JNull
    /\ HasOne(message, "jsonrpc") /\ IsStringDoc(The(message, "jsonrpc"))
    /\ HasOne(message, "method") /\ IsStringDoc(The(message, "method"))
    /\ route = "handle_request"
    /\ Failed

(* ------------------------------------------------------------------ *)
(* C2                                                                  *)
(* ------------------------------------------------------------------ *)

\* C2: for every valid Request the reply's `id` is the Request's `id`, the
\* same string or the same integer, never a string for an integer or an
\* integer for a string.
C2_IdentifierEcho ==
    (Returned /\ ValidRequest(message)) =>
        /\ Replied
        /\ HasOne(Reply, "id")
        /\ The(Reply, "id") = The(message, "id")

\* the string id "1" came back as the string "1"
C2_Witness ==
    /\ Replied
    /\ ValidRequest(message)
    /\ The(message, "id") = JStr("1")
    /\ The(Reply, "id") = JStr("1")

(* ------------------------------------------------------------------ *)
(* C3                                                                  *)
(* ------------------------------------------------------------------ *)

\* C3: every Response handle_message produces has exactly one of `result`
\* and `error`, and the reply text has a member for that one only: the
\* absent one is not written, not even as null.
C3_ResultXorError ==
    Replied =>
        LET response == Response_from_str(Reply)
        IN  /\ response.ok
            /\ response.val.result.some # response.val.error.some
            /\ HasMember(Reply, "result") # HasMember(Reply, "error")
            /\ Len(Occurrences(Reply.members, "result")) <= 1
            /\ Len(Occurrences(Reply.members, "error")) <= 1

\* an error Response, after an earlier call failed and an initialize request
\* was answered
C3_Witness ==
    /\ Replied
    /\ HasMember(Reply, "error") /\ ~HasMember(Reply, "result")
    /\ {"failed", "initialize"} \subseteq history

(* ------------------------------------------------------------------ *)
(* C4                                                                  *)
(* ------------------------------------------------------------------ *)

\* C4: a valid Request whose method is neither "initialize" nor "ping" gets
\* a reply with no `result` and the error {code: -32601, message: "Method not
\* found"} without `data`.
C4_MethodNotFound ==
    (Returned /\ ValidRequest(message)
       /\ The(message, "method") \notin {JStr("initialize"), JStr("ping")}) =>
        /\ Replied
        /\ ~HasMember(Reply, "result")
        /\ HasOne(Reply, "error")
        /\ The(Reply, "error") =
               JObj(<< Member("code", JInt(0 - 32601)),
                       Member("message", JStr("Method not found")) >>)

\* a notification method name sent with an `id` got the error
C4_Witness ==
    /\ Replied
    /\ ValidRequestFor(message, "notifications/initialized")
    /\ HasOne(Reply, "error")

(* ------------------------------------------------------------------ *)
(* C5                                                                  *)
(* ------------------------------------------------------------------ *)

\* C5: every valid Notification, whatever its method, makes handle_message
\* return Ok(None).
C5_NotificationsSilent ==
    (Returned /\ ValidNotification(message)) => ReturnedOkNone

\* a notification of a method the server does not know returned Ok(None)
C5_Witness ==
    /\ ReturnedOkNone
    /\ ValidNotification(message)
    /\ The(message, "method") = JStr("tools/list")

(* ------------------------------------------------------------------ *)
(* C6                                                                  *)
(* ------------------------------------------------------------------ *)

\* C6: a valid "initialize" Request, whatever its params, gets a reply with
\* no `error` whose result has protocolVersion "2024-11-05", capabilities
\* with exactly the groups logging, prompts, resources and tools, and
\* serverInfo with the name and version Server::new was given.
C6_InitializeResult ==
    (Returned /\ ValidRequestFor(message, "initialize")) =>
        /\ Replied
        /\ ~HasMember(Reply, "error")
        /\ HasOne(Reply, "result")
        /\ LET result == The(Reply, "result")
           IN  /\ HasOne(result, "protocolVersion")
               /\ The(result, "protocolVersion") = JStr("2024-11-05")
               /\ HasOne(result, "capabilities")
               /\ The(result, "capabilities").t = "obj"
               /\ Len(The(result, "capabilities").members) = 4
               /\ MemberNames(The(result, "capabilities").members) =
                      {"logging", "prompts", "resources", "tools"}
               /\ HasOne(result, "serverInfo")
               /\ The(result, "serverInfo").t = "obj"
               /\ Len(The(result, "serverInfo").members) = 2
               /\ HasOne(The(result, "serverInfo"), "name")
               /\ The(The(result, "serverInfo"), "name") = JStr(args.name)
               /\ HasOne(The(result, "serverInfo"), "version")
               /\ The(The(result, "serverInfo"), "version") =
                      JStr(args.version)

\* an initialize request offering another protocol version was answered by
\* the server named "mcp_rs"
C6_Witness ==
    /\ Replied
    /\ ValidRequestFor(message, "initialize")
    /\ HasOne(message, "params")
    /\ HasOne(The(message, "params"), "protocolVersion")
    /\ The(The(message, "params"), "protocolVersion") = JStr("1999-01-01")
    /\ args.name = "mcp_rs"
    /\ HasOne(Reply, "result")

(* ------------------------------------------------------------------ *)
(* C7                                                                  *)
(* ------------------------------------------------------------------ *)

\* C7: in the reply to "initialize" the capability objects carry the wire
\* names of the specified document: prompts is {"listChanged":false},
\* resources is {"subscribe":false,"listChanged":false}, tools is
\* {"listChanged":false}, logging is {}, and no other name appears in them.
C7_CapabilityWireNames ==
    (Replied /\ ValidRequestFor(message, "initialize")) =>
        LET caps == The(The(Reply, "result"), "capabilities")
        IN  /\ The(caps, "logging") = JObj(<< >>)
            /\ Len(The(caps, "prompts").members) = 1
            /\ MemberNames(The(caps, "prompts").members) = {"listChanged"}
            /\ The(The(caps, "prompts"), "listChanged") = JBool(FALSE)
            /\ Len(The(caps, "resources").members) = 2
            /\ MemberNames(The(caps, "resources").members) =
                   {"subscribe", "listChanged"}
            /\ The(The(caps, "resources"), "subscribe") = JBool(FALSE)
            /\ The(The(caps, "resources"), "listChanged") = JBool(FALSE)
            /\ Len(The(caps, "tools").members) = 1
            /\ MemberNames(The(caps, "tools").members) = {"listChanged"}
            /\ The(The(caps, "tools"), "listChanged") = JBool(FALSE)

(* ------------------------------------------------------------------ *)
(* C8                                                                  *)
(* ------------------------------------------------------------------ *)

\* C8: a valid "ping" Request is answered with no `error` and the result {}
\* at any point of any sequence of calls, also before any initialize request
\* or initialized notification has been handled.
C8_PingAlwaysAnswered ==
    (Returned /\ ValidRequestFor(message, "ping")) =>
        /\ Replied
        /\ ~HasMember(Reply, "error")
        /\ HasOne(Reply, "result")
        /\ The(Reply, "result") = JObj(<< >>)

\* a ping answered as the very first call, nothing of the handshake having
\* happened
C8_Witness ==
    /\ Replied
    /\ ValidRequestFor(message, "ping")
    /\ "initialize" \notin history
    /\ "notifications/initialized" \notin history
    /\ HasOne(Reply, "result")

(* ------------------------------------------------------------------ *)
(* C9                                                                  *)
(* ------------------------------------------------------------------ *)

\* name k is not written, or is written with a value that is not a string
MissingOrNotString(text, k) ==
    \/ ~HasMember(text, k)
    \/ \E i \in 1..Len(Occurrences(text.members, k)) :
           ~IsStringDoc(Occurrences(text.members, k)[i].v)

\* the malformed inputs C9 lists
MalformedInput(text) ==
    \/ ~Parses(text)
    \/ /\ HasMember(text, "id")
       /\ \/ MissingOrNotString(text, "jsonrpc")
          \/ MissingOrNotString(text, "method")
          \/ \E i \in 1..Len(Occurrences(text.members, "id")) :
                 LET d == Occurrences(text.members, "id")[i].v
                 IN  ~(IsStringDoc(d) \/ IsIntegerDoc(d))
    \/ /\ Parses(text)
       /\ ~HasMember(text, "id")
       /\ \/ MissingOrNotString(text, "jsonrpc")
          \/ MissingOrNotString(text, "method")

\* C9: every malformed input makes handle_message fail with no reply: text
\* that is not JSON, a message with `id` whose jsonrpc or method is missing
\* or not a string or whose id is not a string or integer, and a message
\* without `id` whose jsonrpc or method is missing or not a string.
C9_MalformedInputFails ==
    (Returned /\ MalformedInput(message)) => Failed

(* ------------------------------------------------------------------ *)
(* C10                                                                 *)
(* ------------------------------------------------------------------ *)

\* C10: across any sequence or interleaving of calls on one Server, no call
\* changes the Server's capabilities or implementation identity, and every
\* call returns what a freshly constructed Server with the same name and
\* version returns for the same message; a failed call changes nothing for
\* the calls after it.
C10_Stateless ==
    /\ server.capabilities = Server_new(args.name, args.version).capabilities
    /\ server.implementation = [name |-> args.name, version |-> args.version]
    /\ \A c \in Callers :
           pc[c] = "returned" =>
               outcome[c] =
                   handle_message(Server_new(args.name, args.version),
                                  message[c]).out

\* an initialize request is answered for one caller after a call failed,
\* while another caller is in the middle of a call
C10_Witness ==
    \E c, d \in Callers :
        /\ c # d
        /\ pc[c] = "returned"
        /\ "failed" \in history
        /\ outcome[c].ok /\ outcome[c].val.some
        /\ ValidRequestFor(message[c], "initialize")
        /\ pc[d] = "calling"

====
